---- MODULE Spec2Model ----
(***************************************************************************)
(* A model of the DPLL solver of sat_solver/src/main.rs: struct Solver,    *)
(* its construction (new, preprocess) and the recursive search (solve,     *)
(* bcp, propagate, backtrack, assign_lit, pick_variable).                  *)
(*                                                                         *)
(* Positions (clause indices, literal slots, watch slots, trail lengths)   *)
(* keep the 0-based values of the Rust code; Nth reads a sequence at a     *)
(* 0-based position.  Option<bool> is "None" | "True" | "False".           *)
(***************************************************************************)
EXTENDS Integers, Sequences, FiniteSets, TLC

\* ---------------------------------------------------------------- bounds
\* Largest variable count of an enumerated input.
MaxVars == 2
\* Largest number of clauses of an enumerated input.
MaxClauses == 2
\* Largest number of literal occurrences, all clauses together, of an
\* enumerated input.
MaxLits == 3

\* ------------------------------------------------------------ primitives
Nth(seq, i) == seq[i + 1]

Abs(x) == IF x < 0 THEN -x ELSE x

Neg(b) == IF b = "True" THEN "False" ELSE "True"

\* Solver::lit_index
lit_index(lit) == IF lit > 0 THEN lit * 2 ELSE (-lit) * 2 + 1

\* Solver::val, reading the assignment vector asg
val(asg, lit) ==
    IF asg[Abs(lit)] = "None" THEN "None"
    ELSE IF lit > 0 THEN asg[Abs(lit)] ELSE Neg(asg[Abs(lit)])

\* ------------------------------------------------------------ preprocess
\* IsTautology with the inner loop cut to the next position (j = i + 1 only).
IsTautology_Adjacent(clause) ==
    \E i \in 1..(Len(clause) - 1) : clause[i] = -clause[i + 1]

\* The closure handed to retain (lines 44-53) answers false for this clause.
IsTautology(clause) ==
    \E i \in 1..Len(clause) : \E j \in (i + 1)..Len(clause) :
        clause[i] = -clause[j]

RECURSIVE Retain(_)
Retain(cs) ==
    IF cs = <<>> THEN <<>>
    ELSE IF IsTautology(Head(cs)) THEN Retain(Tail(cs))
    ELSE <<Head(cs)>> \o Retain(Tail(cs))

\* The largest clause length of cs (0 when cs is empty).
SeqMaxLen(cs) ==
    LET lens == { Len(cs[i]) : i \in 1..Len(cs) } \cup {0}
    IN  CHOOSE x \in lens : \A y \in lens : y <= x

OfLen(cs, k) ==
    LET Keep(c) == Len(c) = k IN SelectSeq(cs, Keep)

RECURSIVE SortFrom(_, _, _)
SortFrom(cs, k, top) ==
    IF k > top THEN <<>> ELSE OfLen(cs, k) \o SortFrom(cs, k + 1, top)

\* SortByLen with the sort left out.
SortByLen_Unsorted(cs) == cs

\* sort_by_key(|c| c.len()): a stable sort, ascending by length
SortByLen(cs) == SortFrom(cs, 0, SeqMaxLen(cs))

\* The watch lists after the loop of lines 61-73 has visited clauses 0..idx-1.
RECURSIVE InitWatchLists(_, _, _)
InitWatchLists(cs, idx, wl) ==
    IF idx >= Len(cs) THEN wl
    ELSE LET clause == Nth(cs, idx) IN
         IF clause = <<>> THEN InitWatchLists(cs, idx + 1, wl)
         ELSE LET k1  == lit_index(Nth(clause, 0))
                  wl1 == [wl EXCEPT ![k1] = Append(@, idx)]
                  wl2 == IF Len(clause) > 1
                         THEN [wl1 EXCEPT ![lit_index(Nth(clause, 1))] = Append(@, idx)]
                         ELSE wl1
              IN  InitWatchLists(cs, idx + 1, wl2)

\* Occurrences of literals of variable v with the given sign (lines 77-86).
RECURSIVE CountIn(_, _)
CountIn(clause, lit) ==
    IF clause = <<>> THEN 0
    ELSE (IF Head(clause) = lit THEN 1 ELSE 0) + CountIn(Tail(clause), lit)

RECURSIVE CountAll(_, _)
CountAll(cs, lit) ==
    IF cs = <<>> THEN 0 ELSE CountIn(Head(cs), lit) + CountAll(Tail(cs), lit)

\* Polarity with the second branch writing 1 as the first does.
Polarity_SameSign(pos, neg) ==
    IF pos > 0 /\ neg = 0 THEN 1
    ELSE IF neg > 0 /\ pos = 0 THEN 1
    ELSE 0

\* literal_polarity[v] as lines 88-94 set it.
Polarity(pos, neg) ==
    IF pos > 0 /\ neg = 0 THEN 1
    ELSE IF neg > 0 /\ pos = 0 THEN -1
    ELSE 0

\* Solver::new: the struct after construction, preprocess() included.
New(cls, n) ==
    LET kept == SortByLen(Retain(cls))
        pos  == [v \in 0..n |-> IF v = 0 THEN 0 ELSE CountAll(kept, v)]
        neg  == [v \in 0..n |-> IF v = 0 THEN 0 ELSE CountAll(kept, -v)]
    IN  [ clauses          |-> kept,
          num_vars         |-> n,
          assignment       |-> [v \in 0..n |-> "None"],
          history          |-> <<>>,
          positives        |-> pos,
          negatives        |-> neg,
          literal_polarity |-> [v \in 0..n |-> IF v = 0 THEN 0
                                               ELSE Polarity(pos[v], neg[v])],
          watches          |-> [i \in 1..Len(kept) |-> <<0, 1>>],
          watch_lists      |-> InitWatchLists(kept, 0,
                                  [k \in 0..(2 * (n + 1) - 1) |-> <<>>]) ]

\* ------------------------------------------------------- assignment, trail
\* Solver::assign_lit
assign_lit(s, lit) ==
    IF s.assignment[Abs(lit)] = "None"
    THEN [s EXCEPT !.assignment[Abs(lit)] = IF lit > 0 THEN "True" ELSE "False",
                   !.history = Append(@, lit)]
    ELSE s

\* backtrack popping the trail without clearing the assignment.
backtrack_KeepsAssignment(s, saved_len) ==
    [s EXCEPT !.history = SubSeq(@, 1, IF Len(@) > saved_len THEN saved_len ELSE Len(@))]

\* Solver::backtrack
RECURSIVE backtrack(_, _)
backtrack(s, saved_len) ==
    IF Len(s.history) > saved_len
    THEN LET lit == s.history[Len(s.history)]
         IN  backtrack([s EXCEPT !.history = SubSeq(@, 1, Len(@) - 1),
                                 !.assignment[Abs(lit)] = "None"],
                       saved_len)
    ELSE s

\* ------------------------------------------------------------- propagate
\* swap_remove taking the last element off whatever i is.
swap_remove_Last(seq, i) == SubSeq(seq, 1, Len(seq) - 1)

\* Vec::swap_remove(i): the last element takes the place of element i.
swap_remove(seq, i) ==
    LET n == Len(seq) IN
    IF i = n - 1 THEN SubSeq(seq, 1, n - 1)
    ELSE [k \in 1..(n - 1) |-> IF k = i + 1 THEN seq[n] ELSE seq[k]]

\* The positions the scan of lines 300-318 may move the watch to.
WatchCandidates(s, clause, current, other) ==
    { j \in 2..(Len(clause) - 1) :
        /\ j # current
        /\ j # other
        /\ val(s.assignment, Nth(clause, j)) # "False" }

SetMin(S) == CHOOSE x \in S : \A y \in S : x <= y

\* The while loop of lines 281-322 from position i of watch_lists[neg_idx].
\* panic: an index past the end of the clause was read (Rust aborts).
RECURSIVE PropagateLoop(_, _, _)
PropagateLoop(s, neg_lit, i) ==
    LET neg_idx == lit_index(neg_lit) IN
    IF i >= Len(s.watch_lists[neg_idx]) THEN [panic |-> FALSE, s |-> s]
    ELSE
      LET clause_idx == Nth(s.watch_lists[neg_idx], i)
          clause     == Nth(s.clauses, clause_idx)
          first      == Nth(s.watches, clause_idx)[1]
          second     == Nth(s.watches, clause_idx)[2]
      IN
      IF first >= Len(clause) THEN [panic |-> TRUE, s |-> s]
      ELSE
        LET current == IF Nth(clause, first) = neg_lit THEN first ELSE second
            other   == IF Nth(clause, first) = neg_lit THEN second ELSE first
        IN
        IF other >= Len(clause) THEN [panic |-> TRUE, s |-> s]
        ELSE IF val(s.assignment, Nth(clause, other)) = "True"
        THEN PropagateLoop(s, neg_lit, i + 1)
        ELSE
          LET cand == WatchCandidates(s, clause, current, other) IN
          IF cand = {} THEN PropagateLoop(s, neg_lit, i + 1)
          ELSE
            LET j       == SetMin(cand)
                new_idx == lit_index(Nth(clause, j))
                w2      == [s.watches EXCEPT ![clause_idx + 1] =
                              IF current = first THEN <<j, second>>
                                                 ELSE <<first, j>>]
                wl1     == [s.watch_lists EXCEPT ![neg_idx] = swap_remove(@, i)]
                wl2     == [wl1 EXCEPT ![new_idx] = Append(@, clause_idx)]
            IN  PropagateLoop([s EXCEPT !.watches = w2, !.watch_lists = wl2],
                              neg_lit, i)

\* Solver::propagate: ok is the returned bool, panic an out-of-bounds abort.
\* prop_call (history of the run, not program state) keeps the call's
\* argument and the value val(lit) had when the call was made.
propagate(s, lit) ==
    LET s0 == [s EXCEPT !.prop_call = <<lit, val(s.assignment, lit)>>] IN
    IF val(s.assignment, lit) # "None"
    THEN [ok |-> val(s.assignment, lit) = "True", panic |-> FALSE, s |-> s0]
    ELSE LET r == PropagateLoop(assign_lit(s0, lit), -lit, 0)
         IN  [ok |-> TRUE, panic |-> r.panic, s |-> r.s]

\* ------------------------------------------------------------------- bcp
\* ScanClause passing over a true literal as it does over a false one.
RECURSIVE ScanClause_IgnoresTrue(_, _, _, _)
ScanClause_IgnoresTrue(asg, clause, unassigned_count, last_unassigned) ==
    IF clause = <<>> THEN <<unassigned_count, last_unassigned>>
    ELSE LET lit == Head(clause) IN
         IF val(asg, lit) # "None"
         THEN ScanClause_IgnoresTrue(asg, Tail(clause), unassigned_count,
                                     last_unassigned)
         ELSE IF unassigned_count + 1 > 1 THEN <<unassigned_count + 1, lit>>
         ELSE ScanClause_IgnoresTrue(asg, Tail(clause), unassigned_count + 1, lit)

\* The literal scan of lines 234-252 on one clause:
\* <<unassigned_count, last_unassigned>> carried from literal to literal.
RECURSIVE ScanClause(_, _, _, _)
ScanClause(asg, clause, unassigned_count, last_unassigned) ==
    IF clause = <<>> THEN <<unassigned_count, last_unassigned>>
    ELSE LET lit == Head(clause) IN
         IF val(asg, lit) = "True" THEN <<2, last_unassigned>>
         ELSE IF val(asg, lit) = "False"
         THEN ScanClause(asg, Tail(clause), unassigned_count, last_unassigned)
         ELSE IF unassigned_count + 1 > 1 THEN <<unassigned_count + 1, lit>>
         ELSE ScanClause(asg, Tail(clause), unassigned_count + 1, lit)

\* --------------------------------------------------------- pick_variable
HasTrueLit(asg, clause) ==
    \E k \in 1..Len(clause) : val(asg, clause[k]) = "True"

\* What one clause adds to scores[v] (lines 142-149): one per literal
\* occurrence of v, when the clause has no true literal and v is unassigned.
ClauseScore(asg, clause, v) ==
    IF HasTrueLit(asg, clause) \/ asg[v] # "None" THEN 0
    ELSE CountIn(clause, v) + CountIn(clause, -v)

RECURSIVE Score(_, _, _)
Score(asg, cs, v) ==
    IF cs = <<>> THEN 0
    ELSE ClauseScore(asg, Head(cs), v) + Score(asg, Tail(cs), v)

\* BestFrom with the loop ending one variable early (1..num_vars).
RECURSIVE BestFrom_Exclusive(_, _, _, _)
BestFrom_Exclusive(s, v, best_var, best_score) ==
    IF v >= s.num_vars THEN best_var
    ELSE LET sc == Score(s.assignment, s.clauses, v) IN
         IF s.assignment[v] = "None" /\ sc > best_score
         THEN BestFrom_Exclusive(s, v + 1, v, sc)
         ELSE BestFrom_Exclusive(s, v + 1, best_var, best_score)

\* BestFrom comparing with >= where the code has >.
RECURSIVE BestFrom_NotStrict(_, _, _, _)
BestFrom_NotStrict(s, v, best_var, best_score) ==
    IF v > s.num_vars THEN best_var
    ELSE LET sc == Score(s.assignment, s.clauses, v) IN
         IF s.assignment[v] = "None" /\ sc >= best_score
         THEN BestFrom_NotStrict(s, v + 1, v, sc)
         ELSE BestFrom_NotStrict(s, v + 1, best_var, best_score)

\* The loop of lines 153-161 from variable v on.
RECURSIVE BestFrom(_, _, _, _)
BestFrom(s, v, best_var, best_score) ==
    IF v > s.num_vars THEN best_var
    ELSE LET sc == Score(s.assignment, s.clauses, v) IN
         IF s.assignment[v] = "None" /\ sc > best_score
         THEN BestFrom(s, v + 1, v, sc)
         ELSE BestFrom(s, v + 1, best_var, best_score)

\* Solver::pick_variable
pick_variable(s) == BestFrom(s, 1, 0, 0)

\* ------------------------------------------------------------- the search
\* One activation of solve() is a frame of stack; its pc is the place the
\* activation has reached:
\*   "pure"       at the head of the loop of lines 173-186, about to test v
\*   "bcp"        inside bcp(), at the head of the for loop, at clause_idx
\*   "bcp_true"   bcp() has returned true   (line 189)
\*   "bcp_false"  bcp() has returned false  (line 189)
\*   "first"      waiting for the recursive solve() of line 211
\*   "second"     waiting for the recursive solve() of line 217
\* entry_history and entry_assignment remember the trail and the assignment
\* at the activation's entry; the program keeps only entry_snapshot.
\* CallFrame without the test of line 172: every activation starts with the
\* pure-literal loop.
CallFrame_AlwaysPure(s) ==
    [ pc               |-> "pure",
      entry_snapshot   |-> Len(s.history),
      v                |-> 1,
      clause_idx       |-> 0,
      changed          |-> FALSE,
      snapshot         |-> 0,
      first_lit        |-> 0,
      entry_history    |-> s.history,
      entry_assignment |-> s.assignment ]

CallFrame(s) ==
    [ pc               |-> IF Len(s.history) = 0 THEN "pure" ELSE "bcp",
      entry_snapshot   |-> Len(s.history),
      v                |-> 1,
      clause_idx       |-> 0,
      changed          |-> FALSE,
      snapshot         |-> 0,
      first_lit        |-> 0,
      entry_history    |-> s.history,
      entry_assignment |-> s.assignment ]

Top(m) == m.stack[Len(m.stack)]

SetTop(m, f) == [m EXCEPT !.stack[Len(m.stack)] = f]

\* `return value` of the top activation: the frame is popped and the value
\* handed to the caller (to main when the stack empties).
Return(m, value) ==
    [m EXCEPT !.stack     = SubSeq(@, 1, Len(@) - 1),
              !.ret       = value,
              !.ret_entry = <<Top(m).entry_history, Top(m).entry_assignment>>,
              !.status    = IF Len(m.stack) = 1 THEN "done" ELSE @]

Panic(m) == [m EXCEPT !.status = "panic"]

\* The recursive call self.solve(): a new activation on top of the caller's.
Call(m) == [m EXCEPT !.stack = Append(@, CallFrame(m))]

\* main, line 388: solver.solve()
StepCallSolve(m) == Call([m EXCEPT !.status = "running"])

\* solve, lines 172-187: one iteration of the pure-literal loop, or its exit
\* into bcp() (line 189, entering the while loop of line 228).
StepPure(m) ==
    LET f == Top(m) IN
    IF f.v > m.num_vars
    THEN SetTop(m, [f EXCEPT !.pc = "bcp", !.clause_idx = 0, !.changed = FALSE])
    ELSE IF m.assignment[f.v] = "None" /\ m.literal_polarity[f.v] # 0
    THEN LET lit == IF m.literal_polarity[f.v] > 0 THEN f.v ELSE -f.v
             r   == propagate(m, lit)
         IN  IF r.panic THEN Panic(r.s)
             ELSE IF ~r.ok
             THEN Return(backtrack(r.s, f.entry_snapshot), "false")
             ELSE SetTop(assign_lit(r.s, lit), [f EXCEPT !.v = f.v + 1])
    ELSE SetTop(m, [f EXCEPT !.v = f.v + 1])

\* StepBcp starting a new pass without `changed = false` (line 229).
StepBcp_ChangedKept(m) ==
    LET f == Top(m) IN
    IF f.clause_idx >= Len(m.clauses)
    THEN IF f.changed
         THEN SetTop(m, [f EXCEPT !.clause_idx = 0])
         ELSE SetTop(m, [f EXCEPT !.pc = "bcp_true"])
    ELSE
      LET sc               == ScanClause(m.assignment, Nth(m.clauses, f.clause_idx), 0, 0)
          unassigned_count == sc[1]
          last_unassigned  == sc[2]
          next             == [f EXCEPT !.clause_idx = f.clause_idx + 1]
      IN
      IF unassigned_count = 0 THEN SetTop(m, [f EXCEPT !.pc = "bcp_false"])
      ELSE IF unassigned_count = 1 /\ val(m.assignment, last_unassigned) = "None"
      THEN LET r == propagate(m, last_unassigned) IN
           IF r.panic THEN Panic(r.s)
           ELSE IF ~r.ok THEN SetTop(r.s, [f EXCEPT !.pc = "bcp_false"])
           ELSE SetTop(r.s, [next EXCEPT !.changed = TRUE])
      ELSE SetTop(m, next)

\* bcp, lines 228-268: one iteration of the for loop, or the end of a pass.
StepBcp(m) ==
    LET f == Top(m) IN
    IF f.clause_idx >= Len(m.clauses)
    THEN IF f.changed
         THEN SetTop(m, [f EXCEPT !.clause_idx = 0, !.changed = FALSE])
         ELSE SetTop(m, [f EXCEPT !.pc = "bcp_true"])
    ELSE
      LET sc               == ScanClause(m.assignment, Nth(m.clauses, f.clause_idx), 0, 0)
          unassigned_count == sc[1]
          last_unassigned  == sc[2]
          next             == [f EXCEPT !.clause_idx = f.clause_idx + 1]
      IN
      IF unassigned_count = 0 THEN SetTop(m, [f EXCEPT !.pc = "bcp_false"])
      ELSE IF unassigned_count = 1 /\ val(m.assignment, last_unassigned) = "None"
      THEN LET r == propagate(m, last_unassigned) IN
           IF r.panic THEN Panic(r.s)
           ELSE IF ~r.ok THEN SetTop(r.s, [f EXCEPT !.pc = "bcp_false"])
           ELSE SetTop(r.s, [next EXCEPT !.changed = TRUE])
      ELSE SetTop(m, next)

\* StepBcpFail returning without the rollback of line 190.
StepBcpFail_NoRollback(m) == Return(m, "false")

\* solve, lines 189-192: bcp() returned false.
StepBcpFail(m) == Return(backtrack(m, Top(m).entry_snapshot), "false")

\* solve, lines 221-222
FailBoth(m) == Return(backtrack(m, Top(m).entry_snapshot), "false")

\* SecondBranch without the rollback of line 215.
SecondBranch_NoRollback(m) ==
    LET f  == Top(m)
        r  == propagate(m, -f.first_lit)
        m2 == SetTop(r.s, [f EXCEPT !.pc = "second"])
    IN  IF r.panic THEN Panic(r.s)
        ELSE IF r.ok THEN Call(m2)
        ELSE FailBoth(m2)

\* solve, lines 215-219 up to the recursive call: the second branch.
SecondBranch(m) ==
    LET f  == Top(m)
        m1 == backtrack(m, f.snapshot)
        r  == propagate(m1, -f.first_lit)
        m2 == SetTop(r.s, [f EXCEPT !.pc = "second"])
    IN  IF r.panic THEN Panic(r.s)
        ELSE IF r.ok THEN Call(m2)
        ELSE FailBoth(m2)

\* FirstLit with a tie of the two counts going to the negative literal.
FirstLit_TieNegative(m, pick_var) ==
    IF m.positives[pick_var] > m.negatives[pick_var] THEN pick_var ELSE -pick_var

\* try_positive_first, first_lit: lines 201-209
FirstLit(m, pick_var) ==
    IF m.positives[pick_var] >= m.negatives[pick_var] THEN pick_var ELSE -pick_var

\* solve, lines 194-211 up to the recursive call: bcp() returned true.
StepDecide(m) ==
    LET f        == Top(m)
        pick_var == pick_variable(m)
    IN
    IF pick_var = 0 THEN Return(m, "true")
    ELSE LET first_lit == FirstLit(m, pick_var)
             r         == propagate(m, first_lit)
             m1        == SetTop(r.s, [f EXCEPT !.pc = "first",
                                                !.snapshot = Len(m.history),
                                                !.first_lit = first_lit])
         IN  IF r.panic THEN Panic(r.s)
             ELSE IF r.ok THEN Call(m1)
             ELSE SecondBranch(m1)

\* solve, lines 211-217: the first recursive call has returned m.ret.
StepAfterFirst(m) ==
    LET m0 == [m EXCEPT !.ret = "none", !.ret_entry = <<>>] IN
    IF m.ret = "true" THEN Return(m0, "true") ELSE SecondBranch(m0)

\* solve, lines 217-222: the second recursive call has returned m.ret.
StepAfterSecond(m) ==
    LET m0 == [m EXCEPT !.ret = "none", !.ret_entry = <<>>] IN
    IF m.ret = "true" THEN Return(m0, "true") ELSE FailBoth(m0)

Running(m) == m.status = "running" /\ m.stack # <<>>

AtPc(m, pc) == Running(m) /\ Top(m).pc = pc

\* The program is sequential and deterministic: the step it takes next.
Step(m) ==
    LET m0 == [m EXCEPT !.prop_call = <<>>] IN
    IF m.status = "constructed" THEN StepCallSolve(m0)
    ELSE IF AtPc(m, "pure") THEN StepPure(m0)
    ELSE IF AtPc(m, "bcp") THEN StepBcp(m0)
    ELSE IF AtPc(m, "bcp_false") THEN StepBcpFail(m0)
    ELSE IF AtPc(m, "bcp_true") THEN StepDecide(m0)
    ELSE IF AtPc(m, "first") THEN StepAfterFirst(m0)
    ELSE IF AtPc(m, "second") THEN StepAfterSecond(m0)
    ELSE m

\* Solver::new(clauses, num_vars) as main leaves it at line 386, solve() not
\* yet called.
Constructed(in) ==
    LET s == New(in.clauses, in.num_vars) IN
    [ input            |-> in,
      clauses          |-> s.clauses,
      num_vars         |-> s.num_vars,
      assignment       |-> s.assignment,
      history          |-> s.history,
      positives        |-> s.positives,
      negatives        |-> s.negatives,
      literal_polarity |-> s.literal_polarity,
      watches          |-> s.watches,
      watch_lists      |-> s.watch_lists,
      stack            |-> <<>>,
      status           |-> "constructed",
      ret              |-> "none",
      ret_entry        |-> <<>>,
      prop_call        |-> <<>> ]

\* The whole run from m: the state in which solve() has returned or aborted.
RECURSIVE Run(_)
Run(m) == IF m.status \in {"done", "panic"} THEN m ELSE Run(Step(m))

\* ------------------------------------------------------------------ inputs
Lits(n) == { l \in (-n)..n : l # 0 }

ClausesOfLen(n, len) == [1..len -> Lits(n)]

\* Every clause of cs put in front of every sequence of fs.
Prepend(cs, fs) == { <<c>> \o f : c \in cs, f \in fs }

\* The sequences of k clauses over n variables with at most lits literal
\* occurrences in all.
RECURSIVE FormulasOf(_, _, _)
FormulasOf(n, k, lits) ==
    IF k = 0 THEN { <<>> }
    ELSE UNION { Prepend(ClausesOfLen(n, len), FormulasOf(n, k - 1, lits - len)) :
                 len \in 0..lits }

Formulas(n, maxclauses, maxlits) ==
    UNION { FormulasOf(n, k, maxlits) : k \in 0..maxclauses }

\* The formulas of the specification's section 8, and five more in which the
\* search goes further than the enumerated inputs let it: a watch that moves,
\* a decision whose two branches fail, a decision below forced literals,
\* an empty clause given after two conflicting units, the eight clauses
\* that exclude every assignment of three variables, and a decision between
\* two variables one of which a clause repeats.
Examples ==
    { [clauses |-> <<<<1>>, <<-1, 2>>>>, num_vars |-> 2],
      [clauses |-> <<<<1, 2>>, <<1, -2>>>>, num_vars |-> 2],
      [clauses |-> <<<<1>>, <<-1>>>>, num_vars |-> 1],
      [clauses |-> <<<<1, 2>>, <<-1, 2>>, <<1, -2>>, <<-1, -2>>>>, num_vars |-> 2],
      [clauses |-> <<<<1, 2, 3>>, <<-1, -2>>, <<2, -3>>>>, num_vars |-> 3],
      [clauses |-> <<<<-1>>, <<1, 1, 2>>>>, num_vars |-> 2],
      [clauses |-> <<<<1, 1>>, <<-1, -1>>>>, num_vars |-> 1],
      [clauses |-> <<<<2>>, <<1, 1>>, <<-1, -1>>>>, num_vars |-> 2],
      [clauses |-> <<<<1>>, <<-1>>, <<>>>>, num_vars |-> 1],
      [clauses |-> <<<<1, 2, 3>>, <<1, 2, -3>>, <<1, -2, 3>>, <<1, -2, -3>>,
                     <<-1, 2, 3>>, <<-1, 2, -3>>, <<-1, -2, 3>>, <<-1, -2, -3>>>>,
       num_vars |-> 3],
      [clauses |-> <<<<2, 2, -1>>, <<-2, 1>>>>, num_vars |-> 2] }

Inputs ==
    { [clauses |-> f, num_vars |-> MaxVars] :
        f \in Formulas(MaxVars, MaxClauses, MaxLits) } \cup Examples

\* ------------------------------------------------------------------- state
VARIABLES input, clauses, num_vars, assignment, history, positives,
          negatives, literal_polarity, watches, watch_lists,
          stack, status, ret, ret_entry, prop_call

vars == <<input, clauses, num_vars, assignment, history, positives,
          negatives, literal_polarity, watches, watch_lists,
          stack, status, ret, ret_entry, prop_call>>

\* The current state as one value, and the next state set from one.
St ==
    [ input            |-> input,
      clauses          |-> clauses,
      num_vars         |-> num_vars,
      assignment       |-> assignment,
      history          |-> history,
      positives        |-> positives,
      negatives        |-> negatives,
      literal_polarity |-> literal_polarity,
      watches          |-> watches,
      watch_lists      |-> watch_lists,
      stack            |-> stack,
      status           |-> status,
      ret              |-> ret,
      ret_entry        |-> ret_entry,
      prop_call        |-> prop_call ]

Becomes(m) ==
    /\ input' = m.input
    /\ clauses' = m.clauses
    /\ num_vars' = m.num_vars
    /\ assignment' = m.assignment
    /\ history' = m.history
    /\ positives' = m.positives
    /\ negatives' = m.negatives
    /\ literal_polarity' = m.literal_polarity
    /\ watches' = m.watches
    /\ watch_lists' = m.watch_lists
    /\ stack' = m.stack
    /\ status' = m.status
    /\ ret' = m.ret
    /\ ret_entry' = m.ret_entry
    /\ prop_call' = m.prop_call

Init ==
    \E in \in Inputs : \E m \in {Constructed(in)} :
        /\ input = m.input
        /\ clauses = m.clauses
        /\ num_vars = m.num_vars
        /\ assignment = m.assignment
        /\ history = m.history
        /\ positives = m.positives
        /\ negatives = m.negatives
        /\ literal_polarity = m.literal_polarity
        /\ watches = m.watches
        /\ watch_lists = m.watch_lists
        /\ stack = m.stack
        /\ status = m.status
        /\ ret = m.ret
        /\ ret_entry = m.ret_entry
        /\ prop_call = m.prop_call

CallSolve == status = "constructed" /\ \E m \in {Step(St)} : Becomes(m)
PurePass == AtPc(St, "pure") /\ \E m \in {Step(St)} : Becomes(m)
Bcp == AtPc(St, "bcp") /\ \E m \in {Step(St)} : Becomes(m)
BcpFail == AtPc(St, "bcp_false") /\ \E m \in {Step(St)} : Becomes(m)
Decide == AtPc(St, "bcp_true") /\ \E m \in {Step(St)} : Becomes(m)
AfterFirst == AtPc(St, "first") /\ \E m \in {Step(St)} : Becomes(m)
AfterSecond == AtPc(St, "second") /\ \E m \in {Step(St)} : Becomes(m)

Next ==
    \/ CallSolve
    \/ PurePass
    \/ Bcp
    \/ BcpFail
    \/ Decide
    \/ AfterFirst
    \/ AfterSecond

Spec == Init /\ [][Next]_vars

\* ------------------------------------------------------------ main's view
\* main, lines 390-396: the value printed for variable v (an unassigned
\* variable is printed as true).
Reported(asg, v) == asg[v] # "False"

\* ===================================================================
\* The claims.  Everything below states properties or names states; it is
\* written from the claims and uses the model above only through its state.
\* ===================================================================
Finished == status \in {"done", "panic"}

ReturnedTrue == status = "done" /\ ret = "true"

ReturnedFalse == status = "done" /\ ret = "false"

\* The construction contract of the input: every clause is nonempty (the
\* enumerated literals are all nonzero and of magnitude at most num_vars).
NonemptyClauses == \A i \in 1..Len(input.clauses) : input.clauses[i] # <<>>

HasEmptyClause == \E i \in 1..Len(input.clauses) : input.clauses[i] = <<>>

\* Literal lit is true under the total assignment a (a function to BOOLEAN).
LitHolds(a, lit) == IF lit > 0 THEN a[lit] ELSE ~a[-lit]

ClauseHolds(a, clause) == \E k \in 1..Len(clause) : LitHolds(a, clause[k])

\* Brute force: some total assignment satisfies every clause of the input.
BruteSat ==
    \E a \in [1..input.num_vars -> BOOLEAN] :
        \A i \in 1..Len(input.clauses) : ClauseHolds(a, input.clauses[i])

\* A clause that holds a literal and its negation.
Complementary(clause) ==
    \E i, j \in 1..Len(clause) : clause[i] = -clause[j]

\* Variable v occurs in clause with the given literal.
Occurs(clause, lit) == \E k \in 1..Len(clause) : clause[k] = lit

\* C1 (stated as claimed): on an input of nonempty clauses, solve() returns
\* true exactly when brute force finds a satisfying total assignment, and
\* returns false exactly when there is none.
C1_Completeness ==
    (NonemptyClauses /\ Finished) =>
        /\ ReturnedTrue <=> BruteSat
        /\ ReturnedFalse <=> ~BruteSat

\* What remains of C1 on the code: a verdict, when solve() gives one, agrees
\* with brute force (empty clauses included).
VerdictAgreesWithBruteForce ==
    (status = "done") => (ret = "true" <=> BruteSat)

\* C2: when solve() returns true, every clause that survived preprocessing
\* has a literal whose val() is Some(true), and the reported assignment
\* (unassigned read as true) satisfies every clause of the input, the
\* dropped tautologies included.
C2_Soundness ==
    ReturnedTrue =>
        /\ \A i \in 1..Len(clauses) :
              \E k \in 1..Len(clauses[i]) : val(assignment, clauses[i][k]) = "True"
        /\ LET a == [v \in 1..num_vars |-> Reported(assignment, v)]
           IN  \A i \in 1..Len(input.clauses) : ClauseHolds(a, input.clauses[i])

\* A true verdict on an input with a dropped tautology, a surviving clause
\* and a variable left unassigned.
C2_Witness ==
    /\ ReturnedTrue
    /\ Len(clauses) >= 1
    /\ Len(clauses) < Len(input.clauses)
    /\ \E v \in 1..num_vars : assignment[v] = "None"

\* C3 (stated as claimed): on an input of nonempty clauses no step reads a
\* clause position outside the clause: solve() never aborts.
C3_NoOutOfBounds == NonemptyClauses => status # "panic"

\* C4 (stated as claimed): a formula holding the unit clauses [x] and [-x]
\* makes solve() return false.
C4_ConflictingUnits ==
    ( /\ Finished
      /\ \E x \in 1..input.num_vars :
            \E i, j \in 1..Len(input.clauses) :
                input.clauses[i] = <<x>> /\ input.clauses[j] = <<-x>> )
    => ReturnedFalse

\* C5: a clause with zero literals in the input survives preprocessing, and
\* solve() then ends by returning false, whatever the other clauses are:
\* the run from the constructed solver ends, and ends returning false.
C5_EmptyClauseUnsat ==
    HasEmptyClause =>
        /\ \E i \in 1..Len(clauses) : clauses[i] = <<>>
        /\ Finished => ReturnedFalse
        /\ status = "constructed" =>
              Run(St).status = "done" /\ Run(St).ret = "false"

\* solve() has returned false on an input that holds an empty clause next
\* to a nonempty clause.
C5_Witness ==
    /\ ReturnedFalse
    /\ HasEmptyClause
    /\ \E i \in 1..Len(input.clauses) : input.clauses[i] # <<>>

\* The input without its clause at position p.
Without(in, p) ==
    [in EXCEPT !.clauses = SubSeq(@, 1, p - 1) \o SubSeq(@, p + 1, Len(@))]

\* What a caller sees of a finished run: the return value (or the abort) and
\* the value of every variable.
Outcome(m) == <<m.status, m.ret, m.assignment>>

\* C6: for every clause T of the input that holds a literal and its
\* negation, the run on the input ends with the outcome of the run on the
\* input without T (same variable count).
C6_TautologyIrrelevance ==
    Finished =>
        \A p \in 1..Len(input.clauses) :
            Complementary(input.clauses[p]) =>
                Outcome(Run(Constructed(Without(input, p)))) = Outcome(St)

\* A finished run on an input that holds a tautology and a nonempty clause
\* that is none.
C6_Witness ==
    /\ Finished
    /\ \E p \in 1..Len(input.clauses) : Complementary(input.clauses[p])
    /\ \E p \in 1..Len(input.clauses) :
          input.clauses[p] # <<>> /\ ~Complementary(input.clauses[p])

\* Variable v occurs in some clause that survived preprocessing.
Touched(v) ==
    \E i \in 1..Len(clauses) : Occurs(clauses[i], v) \/ Occurs(clauses[i], -v)

PurePositive(v) ==
    /\ \E i \in 1..Len(clauses) : Occurs(clauses[i], v)
    /\ \A i \in 1..Len(clauses) : ~Occurs(clauses[i], -v)

PureNegative(v) ==
    /\ \E i \in 1..Len(clauses) : Occurs(clauses[i], -v)
    /\ \A i \in 1..Len(clauses) : ~Occurs(clauses[i], v)

\* C8: after a true verdict, every variable that occurs in the surviving
\* clauses with one polarity only has that polarity: pure-positive
\* variables are true, pure-negative variables are false.
C8_PureLiteral ==
    ReturnedTrue =>
        \A v \in 1..num_vars :
            /\ PurePositive(v) => assignment[v] = "True"
            /\ PureNegative(v) => assignment[v] = "False"

\* A true verdict with a pure-positive and a pure-negative variable.
C8_Witness ==
    /\ ReturnedTrue
    /\ \E v \in 1..num_vars : PurePositive(v)
    /\ \E v \in 1..num_vars : PureNegative(v)

\* C9: in every state the trail is as long as the number of assigned
\* variables, holds no variable twice, and each of its literals has the
\* sign of its variable's assignment.
C9_TrailInvariant ==
    /\ Len(history) = Cardinality({ v \in 1..num_vars : assignment[v] # "None" })
    /\ \A i, j \in 1..Len(history) :
          Abs(history[i]) = Abs(history[j]) => i = j
    /\ \A i \in 1..Len(history) : val(assignment, history[i]) = "True"

\* The second branch of a decision is being searched (the first was rolled
\* back) with at least two literals on the trail.
C9_Witness ==
    /\ status = "running"
    /\ \E d \in 1..Len(stack) : stack[d].pc = "second"
    /\ Len(history) >= 2

\* C10: whenever an activation of solve() has returned false, the trail and
\* the assignment are what they were when that activation was entered.
C10_FailureRestoresEntry ==
    ret = "false" => ret_entry = <<history, assignment>>

\* A recursive activation, entered with a nonempty trail, has returned
\* false to its caller.
C10_Witness ==
    /\ ret = "false"
    /\ status = "running"
    /\ stack # <<>>
    /\ history # <<>>

\* Sequence a is an initial part of sequence b.
IsPrefix(a, b) == Len(a) <= Len(b) /\ SubSeq(b, 1, Len(a)) = a

\* The positions of clause whose literal is unassigned.
UnassignedPositions(clause) ==
    { k \in 1..Len(clause) : val(assignment, clause[k]) = "None" }

\* bcp() has returned true: no clause is a conflict or a unit.
BcpTrueIsFixpoint ==
    AtPc(St, "bcp_true") =>
        \A i \in 1..Len(clauses) :
            \/ \E k \in 1..Len(clauses[i]) : val(assignment, clauses[i][k]) = "True"
            \/ Cardinality(UnassignedPositions(clauses[i])) >= 2

\* bcp() has returned false: some clause has every literal false.
BcpFalseIsConflict ==
    AtPc(St, "bcp_false") =>
        \E i \in 1..Len(clauses) :
            \A k \in 1..Len(clauses[i]) : val(assignment, clauses[i][k]) = "False"

\* A step inside bcp() leaves every literal of the trail where it is.
BcpKeepsTrail == AtPc(St, "bcp") => IsPrefix(history, history')

\* C11: whenever bcp() has returned true, every clause has a true literal or
\* at least two unassigned literal positions; whenever it has returned
\* false, some clause has every literal false; and no step of bcp() removes
\* a literal from the trail, so what was assigned before or during the call
\* is still on the trail when it returns.
C11_BcpFixpoint ==
    /\ [](BcpTrueIsFixpoint /\ BcpFalseIsConflict)
    /\ [][BcpKeepsTrail]_vars

\* bcp() has returned false in a recursive activation after forcing a
\* literal of its own, which is still on the trail.
C11_Witness ==
    /\ AtPc(St, "bcp_false")
    /\ Len(stack) >= 2
    /\ Len(history) > stack[Len(stack)].entry_snapshot

\* The step just taken called propagate(L) on an unassigned L and the call
\* returned.
Propagated ==
    /\ status # "panic"
    /\ prop_call # <<>>
    /\ prop_call[2] = "None"

\* Watched slot s (1 or 2) of clause i is still on the literal the call made
\* false while the other watched literal is not true.
WatchLeftOnFalse(i, s) ==
    LET clause  == clauses[i]
        current == watches[i][s]
        other   == watches[i][3 - s]
    IN  /\ current < Len(clause)
        /\ other < Len(clause)
        /\ Nth(clause, current) = -prop_call[1]
        /\ val(assignment, Nth(clause, other)) # "True"

\* Every position of clause i that neither watch is on holds a false literal.
NonWatchedAllFalse(i) ==
    \A j \in (0..(Len(clauses[i]) - 1)) \ {watches[i][1], watches[i][2]} :
        val(assignment, Nth(clauses[i], j)) = "False"

\* C12: after propagate(L) has assigned L, a watch is left on -L (the other
\* watched literal not being true) only in a clause whose non-watched
\* literals are all false.
C12_WatchReplacement ==
    Propagated =>
        \A i \in 1..Len(clauses) : \A s \in 1..2 :
            WatchLeftOnFalse(i, s) => NonWatchedAllFalse(i)

\* How many times x occurs in seq.
Count(seq, x) == Cardinality({ k \in 1..Len(seq) : seq[k] = x })

\* The watched slots of clause i (1-based) that hold a literal encoded as key.
SlotsOn(i, key) ==
    { s \in 1..2 : lit_index(Nth(clauses[i], watches[i][s])) = key }

\* The watch pair of clause i names two distinct positions of the clause and
\* the watch lists hold the clause once per watched slot under each key.
WatchesConsistent(i) ==
    /\ watches[i][1] # watches[i][2]
    /\ watches[i][1] \in 0..(Len(clauses[i]) - 1)
    /\ watches[i][2] \in 0..(Len(clauses[i]) - 1)
    /\ \A key \in DOMAIN watch_lists :
           Count(watch_lists[key], i - 1) = Cardinality(SlotsOn(i, key))

\* A step that calls no propagate (a rollback, a scan, a return) leaves the
\* watch pairs and the watch lists as they are.
OnlyPropagateMovesWatches ==
    prop_call' = <<>> => (watches' = watches /\ watch_lists' = watch_lists)

\* C13: in every state, for every clause of length at least 2, the watched
\* slots are distinct valid positions and the clause is listed under a
\* literal key exactly once per watched slot holding that literal; steps
\* without a propagate call, rollbacks among them, change neither structure.
C13_WatchIndexConsistent ==
    /\ [](\A i \in 1..Len(clauses) : Len(clauses[i]) >= 2 => WatchesConsistent(i))
    /\ [][OnlyPropagateMovesWatches]_vars

\* A rollback has just happened in a state where some watch has left the
\* initial pair (0, 1).
C13_Witness ==
    /\ ret = "false"
    /\ status = "running"
    /\ \E i \in 1..Len(clauses) : Len(clauses[i]) >= 2 /\ watches[i] # <<0, 1>>

\* The solver whose propagate() only assigns: with every watch list empty
\* the loop of lines 281-322 has nothing to visit and nothing to update.
WithoutWatchIndex(m) ==
    [m EXCEPT !.watch_lists = [key \in DOMAIN m.watch_lists |-> <<>>]]

\* What a finished run shows: how it ended, the verdict, the assignment and
\* the trail.
Final(m) == <<m.status, m.ret, m.assignment, m.history>>

\* C14: the run of the real solver ends as the run of the assign-only solver
\* on the same input does: same outcome, same final assignment, same trail.
C14_WatchIndexNoEffect ==
    status \in {"done", "panic"} =>
        Final(St) = Final(Run(WithoutWatchIndex(Constructed(input))))

\* The variables without a value.
Unassigned == { v \in 1..num_vars : assignment[v] = "None" }

\* The number of clauses without a true literal that contain variable v.
UnresolvedClausesWith(v) ==
    Cardinality({ i \in 1..Len(clauses) :
                    /\ ~HasTrueLit(assignment, clauses[i])
                    /\ \E k \in 1..Len(clauses[i]) : Abs(clauses[i][k]) = v })

\* The least element of a nonempty set of numbers.
Least(S) == CHOOSE x \in S : \A y \in S : x <= y

\* The unassigned variable in the most unresolved clauses, the lowest id
\* among equals.
MostUnresolved ==
    Least({ v \in Unassigned :
              \A u \in Unassigned :
                  UnresolvedClausesWith(u) <= UnresolvedClausesWith(v) })

\* C15: where solve() calls pick_variable(), it returns 0 if every variable
\* is assigned, and if some unassigned variable is in a clause without a
\* true literal it returns the unassigned variable contained in the most
\* such clauses (a clause counted once however often it repeats the
\* variable), the lowest id among equals.
C15_DecisionHeuristic ==
    AtPc(St, "bcp_true") =>
        /\ Unassigned = {} => pick_variable(St) = 0
        /\ (\E v \in Unassigned : UnresolvedClausesWith(v) > 0) =>
               pick_variable(St) = MostUnresolved

\* The step makes a decision: the top activation goes from "bcp() returned
\* true" to waiting for its first recursive call.
DecisionMade ==
    /\ AtPc(St, "bcp_true")
    /\ Len(stack') = Len(stack) + 1

\* The literal a decision tries first is on top of the trail, is +v exactly
\* when positives[v] >= negatives[v], and the decision snapshot is the trail
\* length before it.
FirstBranchOrder ==
    LET f == stack'[Len(stack)]
        v == Abs(f.first_lit)
    IN  /\ f.pc = "first"
        /\ v \in 1..num_vars
        /\ (f.first_lit > 0) <=> (positives[v] >= negatives[v])
        /\ f.snapshot = Len(history)
        /\ history' = Append(history, f.first_lit)

\* The step starts a second branch: some activation is waiting for its
\* second recursive call and was not before.
SecondTried ==
    \E k \in 1..Len(stack') :
        /\ stack'[k].pc = "second"
        /\ (k > Len(stack) \/ stack[k].pc # "second")

\* A second branch starts only in the activation whose first recursive call
\* has just returned false, on the trail cut back to the decision snapshot,
\* with the opposite of the first literal.
SecondBranchOrder ==
    /\ AtPc(St, "first")
    /\ ret = "false"
    /\ history' = Append(SubSeq(history, 1, Top(St).snapshot), -Top(St).first_lit)
    /\ stack'[Len(stack)].pc = "second"
    /\ stack'[Len(stack)].first_lit = Top(St).first_lit

AssignedCount(asg) == Cardinality({ v \in 1..num_vars : asg[v] # "None" })

\* Every recursive activation was entered with more variables assigned than
\* its parent had at its own entry.
EntryGrows ==
    \A k \in 2..Len(stack) :
        AssignedCount(stack[k].entry_assignment) >
            AssignedCount(stack[k - 1].entry_assignment)

\* The recursive activations are those above the outermost one.
NestedActivations == IF stack = <<>> THEN 0 ELSE Len(stack) - 1

\* The state after at most fuel steps from m, or the end of the run if that
\* comes first.
RECURSIVE RunWithin(_, _)
RunWithin(m, fuel) ==
    IF m.status \in {"done", "panic"} \/ fuel = 0 THEN m
    ELSE RunWithin(Step(m), fuel - 1)

\* What nesting of at most num_vars allows a run: at most 2^(num_vars+1) - 1
\* activations, each with one visit per variable in the pure-literal loop,
\* at most num_vars + 1 passes of bcp() over the clauses (every pass but the
\* last assigns a variable), and the steps around its two recursive calls;
\* one more step for main's call.
StepBound(m) ==
    1 + (2 ^ (m.num_vars + 1) - 1)
          * ((m.num_vars + 1) * (Len(m.clauses) + 2) + 3)

\* C17: each recursive activation of solve() is entered with strictly more
\* variables assigned than its parent had at entry, there are never more
\* than num_vars nested recursive activations, and solve() comes to an end
\* (by a return or by the abort of the process) within the number of steps
\* that this nesting allows.
C17_DepthBounded ==
    /\ EntryGrows
    /\ NestedActivations <= num_vars
    /\ status = "constructed" =>
           RunWithin(St, StepBound(St)).status \in {"done", "panic"}

\* As many nested recursive activations as there are variables.
C17_Witness ==
    /\ status = "running"
    /\ NestedActivations = num_vars

\* The literal the pure-literal pass forces for variable v, 0 if v is not of
\* one polarity.
PureLit(v) ==
    IF PurePositive(v) THEN v ELSE IF PureNegative(v) THEN -v ELSE 0

\* The pure literals of variables 1..k in the order of the loop of line 173.
RECURSIVE PureTrail(_)
PureTrail(k) ==
    IF k = 0 THEN <<>>
    ELSE IF PureLit(k) # 0 THEN Append(PureTrail(k - 1), PureLit(k))
    ELSE PureTrail(k - 1)

\* The literal with which the activation below frame k was entered.
DecisionLit(k) ==
    IF stack[k].pc = "first" THEN stack[k].first_lit ELSE -stack[k].first_lit

\* The outermost activation was entered on an empty trail; every recursive
\* one on a trail that ends in its parent's decision literal, and none of
\* them is in the pure-literal loop.
OnlyOutermostIsPure ==
    /\ stack[1].entry_snapshot = 0
    /\ \A k \in 2..Len(stack) :
          /\ stack[k].entry_snapshot >= 1
          /\ stack[k].entry_snapshot = stack[k - 1].snapshot + 1
          /\ stack[k].entry_history[stack[k].entry_snapshot] = DecisionLit(k - 1)
          /\ stack[k].pc # "pure"

\* While the loop runs the trail is the pure literals of the variables
\* visited so far; afterwards the trail begins with the pure literals of all
\* variables, each there once, for as long as solve() runs.
PureForcedOnce ==
    IF stack[1].pc = "pure"
    THEN history = PureTrail(stack[1].v - 1)
    ELSE IsPrefix(PureTrail(num_vars), history)

\* Once the outermost activation has left the pure-literal loop no step
\* brings it back there.
PureLoopNotReentered ==
    (stack # <<>> /\ stack[1].pc # "pure") =>
        (stack' = <<>> \/ stack'[1].pc # "pure")

\* C18: the trail is empty at the entry of the outermost activation and
\* holds at least the decision literal at the entry of every recursive one,
\* so only the outermost runs the pure-literal loop; the loop forces each
\* pure literal once, in one pass, and is never entered again.
C18_PureOnlyOutermost ==
    /\ []((status = "running" /\ stack # <<>>) =>
              (OnlyOutermostIsPure /\ PureForcedOnce))
    /\ [][PureLoopNotReentered]_vars

\* A second branch is under way, so a rollback has happened, in a run whose
\* pure-literal loop forced a literal.
C18_Witness ==
    /\ status = "running"
    /\ Len(stack) >= 2
    /\ stack[1].pc = "second"
    /\ PureTrail(num_vars) # <<>>

\* The step makes an activation of solve() return false.
FailureReturned ==
    /\ ret' = "false"
    /\ Len(stack') < Len(stack)

\* The activation that returns false does so because its bcp() has found a
\* clause with every literal false, or because its second recursive call
\* has returned false.
FailureFromConflict ==
    \/ /\ AtPc(St, "bcp_false")
       /\ \E i \in 1..Len(clauses) :
              \A k \in 1..Len(clauses[i]) : val(assignment, clauses[i][k]) = "False"
    \/ /\ AtPc(St, "second")
       /\ ret = "false"

\* C19: every propagate(lit) call is made while lit's variable is
\* unassigned, so none returns false; an activation of solve() returns
\* false only after its bcp() has found an all-false clause or after both of
\* its branches have failed, never because a propagate() call failed.
C19_PropagateNeverFails ==
    /\ [](prop_call # <<>> => prop_call[2] = "None")
    /\ [][FailureReturned => FailureFromConflict]_vars

\* propagate() has just been called with the opposite literal of a decision
\* whose first branch failed.
C19_Witness ==
    /\ status = "running"
    /\ prop_call # <<>>
    /\ Len(stack) >= 2
    /\ stack[Len(stack) - 1].pc = "second"
    /\ prop_call[1] = -stack[Len(stack) - 1].first_lit
====
